---- MODULE Spec2Model ----
(***************************************************************************)
(* Verification model of the PDF form conversion pipeline.                 *)
(*                                                                         *)
(*   Spec        run_conversion_pipeline (convert_pdf_form.py): the five   *)
(*               stage coordinator, each stage a child process whose exit  *)
(*               status and output artifact are chosen by the environment. *)
(*   SpecSizing  calculate_intelligent_field_sizes (field_sizing.py): the  *)
(*               Sizing stage program, page loop and field loop.           *)
(*   SpecBatch   batch_convert and process_single_pdf (batch_convert.py):  *)
(*               the batch driver, its worker pool and its report.         *)
(*   SpecRefine  optimize_field_bbox (field_sizing.py) applied to the      *)
(*               fields of one page, each field possibly more than once.   *)
(*   SpecUnderline  detect_underline_or_box (field_sizing.py) applied to   *)
(*               the edge image of a region.                               *)
(***************************************************************************)
EXTENDS Integers, Sequences, FiniteSets, TLC

(* Bounds of the model *)
MaxFields == 2

MaxSizingFields == 2

MaxPage == 2

MaxImages == 2

MaxDocs == 3

MaxWorkers == 2

MaxBatchFields == 1

MaxEdgeRows == 3

EdgeRowLen == 13

MaxRefineFields == 2

(***************************************************************************)
(* Names used by run_conversion_pipeline                                   *)
(***************************************************************************)
StageOrder == <<"textract", "validation", "sizing", "generation", "quality_check">>

Stages == {StageOrder[i] : i \in 1..Len(StageOrder)}

StageIndex(s) == CHOOSE i \in 1..Len(StageOrder) : StageOrder[i] = s

fields_file == "textract_fields.json"

validated_file == "validated_fields.json"

sized_file == "sized_fields.json"

validation_report == "quality_report.json"

output_pdf == "output.pdf"

IntermediateFiles == {fields_file, validated_file, sized_file, validation_report}

FileNames == IntermediateFiles \cup {output_pdf}

(* File contents: a file is absent, unreadable as JSON, or holds a field   *)
(* set written by one stage (producer) with a number of fields.            *)
NoFile == [kind |-> "absent", producer |-> "none", count |-> 0]

Unreadable(p) == [kind |-> "unreadable", producer |-> p, count |-> 0]

Artifact(p, n) == [kind |-> "json", producer |-> p, count |-> n]

NoInput == [file |-> "none", content |-> NoFile]

VARIABLES
    pc,                  \* position in run_conversion_pipeline
    running,             \* the stages whose child process is in flight
    child_result,        \* what the child process of each stage did
    input_exists,        \* input_pdf.exists()
    skip_validation,     \* argument
    skip_sizing,         \* argument
    keep_intermediates,  \* argument
    steps,               \* results["steps"], in insertion order
    current_fields_file, \* local variable of the same name
    files,               \* work_dir files and the output PDF
    stage_input,         \* the fields file handed to each child process
    raised,              \* exception that left run_conversion_pipeline
    returned             \* the results dictionary given back to the caller

coordVars == <<pc, running, child_result, input_exists, skip_validation,
               skip_sizing, keep_intermediates, steps, current_fields_file,
               files, stage_input, raised, returned>>

(* State of field_sizing.py (calculate_intelligent_field_sizes and main)   *)
VARIABLES
    sz_pc,               \* position in calculate_intelligent_field_sizes
    fields_data,         \* the loaded fields JSON: its list key and its list
    images,              \* convert_from_path(...): page count and page size
    pixels,              \* what the pixel analyses find around each field
    page_num,            \* loop variable of the page loop
    field_idx,           \* loop variable of the field loop (1-based)
    optimized_fields,    \* the list being built
    sz_result,           \* the result dictionary written to output_json
    exit_code            \* return value of main()

sizingVars == <<sz_pc, fields_data, images, pixels, page_num, field_idx,
                optimized_fields, sz_result, exit_code>>

(* State of batch_convert.py (batch_convert and its workers)               *)
VARIABLES
    b_pc,                \* position in batch_convert
    input_dir_exists,    \* input_dir.exists()
    pdf_files,           \* sorted(input_dir.glob("*.pdf")), as 1..n
    parallel,            \* argument of batch_convert
    template_learning,   \* argument of batch_convert
    template_data,       \* local variable: 0 is None, d the result of file d
    results,             \* the batch report being built
    doc_pc,              \* position of each file in process_single_pdf
    doc_result,          \* the result dictionary of each file
    doc_template,        \* the template_data argument each file was given
    doc_fault            \* the step of the file's own pipeline that failed

batchVars == <<b_pc, input_dir_exists, pdf_files, parallel, template_learning,
               template_data, results, doc_pc, doc_result, doc_template,
               doc_fault>>

(* State of repeated optimize_field_bbox calls on the fields of one page   *)
VARIABLES
    rf_fields,           \* all_fields: the candidates of the page
    rf_image,            \* page_image.size
    rf_pixels,           \* what the pixel analyses find around each field
    rf_first,            \* what the first call for each field returned
    rf_last,             \* what the latest call for each field returned
    rf_calls             \* how many calls were made for each field

refineVars == <<rf_fields, rf_image, rf_pixels, rf_first, rf_last, rf_calls>>

(* State of one detect_underline_or_box call                               *)
VARIABLES
    ul_pc,               \* position of the call
    ul_edges,            \* edges_array > threshold, row by row
    ul_result            \* what the call returned

underlineVars == <<ul_pc, ul_edges, ul_result>>

vars == <<coordVars, sizingVars, batchVars, refineVars, underlineVars>>

NotReturned == <<[name |-> "none", status |-> "none"]>>

(* results["steps"][k] = {..., "status": v}: a Python dict keeps insertion *)
(* order and an assignment to an existing key replaces its value.          *)
DictSet(d, k, v) ==
    IF \E i \in 1..Len(d) : d[i].name = k
    THEN [i \in 1..Len(d) |-> IF d[i].name = k
                              THEN [name |-> k, status |-> v]
                              ELSE d[i]]
    ELSE Append(d, [name |-> k, status |-> v])

HasKey(d, k) == \E i \in 1..Len(d) : d[i].name = k

StatusOf(d, k) ==
    IF HasKey(d, k)
    THEN d[CHOOSE i \in 1..Len(d) : d[i].name = k].status
    ELSE "none"

NoResult == [written |-> FALSE, validated_fields |-> <<>>,
             sizing_applied |-> FALSE,
             sizing_stats |-> [total_fields |-> 0, avg_width |-> 0, avg_height |-> 0]]

(* field_sizing.py not running (the coordinator sees it as a child only)   *)
SizingIdle ==
    /\ sz_pc = "idle"
    /\ fields_data = [exists |-> FALSE, key |-> "none", list |-> <<>>]
    /\ images = [count |-> 0, width |-> 0, height |-> 0]
    /\ pixels = <<>>
    /\ page_num = 0
    /\ field_idx = 0
    /\ optimized_fields = <<>>
    /\ sz_result = NoResult
    /\ exit_code = "none"

Docs == 1..MaxDocs

NoDocResult == [filename |-> 0, status |-> "none", fields_detected |-> 0,
                errors |-> <<>>, output_file |-> FALSE]

EmptyReport(n) == [total_files |-> n, processed |-> 0, successful |-> 0,
                   warnings |-> 0, failed |-> 0, files |-> <<>>]

(* batch_convert.py not running                                            *)
BatchIdle ==
    /\ b_pc = "idle"
    /\ input_dir_exists = FALSE
    /\ pdf_files = <<>>
    /\ parallel = 1
    /\ template_learning = FALSE
    /\ template_data = 0
    /\ results = EmptyReport(0)
    /\ doc_pc = [d \in Docs |-> "idle"]
    /\ doc_result = [d \in Docs |-> NoDocResult]
    /\ doc_template = [d \in Docs |-> 0]
    /\ doc_fault = [d \in Docs |-> "none"]

(* optimize_field_bbox not being called                                    *)
RefineIdle ==
    /\ rf_fields = <<>>
    /\ rf_image = [width |-> 0, height |-> 0]
    /\ rf_pixels = <<>>
    /\ rf_first = <<>>
    /\ rf_last = <<>>
    /\ rf_calls = <<>>

(* detect_underline_or_box returns None, line 269 *)
NoUnderline == [width |-> 0, height |-> 0, type |-> "None"]

UnderlineIdle ==
    /\ ul_pc = "idle"
    /\ ul_edges = <<>>
    /\ ul_result = NoUnderline

Init ==
    /\ pc = "entry"
    /\ running = {}
    /\ child_result = [s \in Stages |-> "none"]
    /\ input_exists \in BOOLEAN
    /\ skip_validation \in BOOLEAN
    /\ skip_sizing \in BOOLEAN
    /\ keep_intermediates \in BOOLEAN
    /\ steps = <<>>
    /\ current_fields_file = "unset"
    /\ files = [f \in FileNames |-> NoFile]
    /\ stage_input = [s \in Stages |-> NoInput]
    /\ raised = "none"
    /\ returned = NotReturned
    /\ SizingIdle
    /\ BatchIdle
    /\ RefineIdle
    /\ UnderlineIdle

(* Lines 41-67: the input check, the working directory, the results dict.  *)
Entry ==
    /\ pc = "entry"
    /\ IF input_exists
       THEN /\ pc' = "textract"
            /\ raised' = raised
       ELSE /\ pc' = "raised"
            /\ raised' = "FileNotFoundError"
    /\ UNCHANGED <<sizingVars, batchVars, refineVars, underlineVars>>
    /\ UNCHANGED <<running, child_result, input_exists, skip_validation, skip_sizing,
                   keep_intermediates, steps, current_fields_file, files,
                   stage_input, returned>>

(* subprocess.run([...]) launches the child of a stage and blocks.         *)
Launch(s, f) ==
    /\ pc = s
    /\ s \notin running
    /\ child_result[s] = "none"
    /\ running' = running \cup {s}
    /\ stage_input' = [stage_input EXCEPT ![s] = [file |-> f, content |-> IF f \in FileNames THEN files[f] ELSE NoFile]]
    /\ UNCHANGED <<sizingVars, batchVars, refineVars, underlineVars>>
    /\ UNCHANGED <<pc, child_result, input_exists, skip_validation, skip_sizing,
                   keep_intermediates, steps, current_fields_file, files,
                   raised, returned>>

(* An exception that no except clause of the function catches.             *)
Propagate(e) ==
    /\ pc' = "raised"
    /\ raised' = e

(***************************************************************************)
(* STEP 1, lines 69-102                                                    *)
(***************************************************************************)
DetectionStart ==
    Launch("textract", "input.pdf")

AfterDetection_SizingFirst == "sizing"

AfterDetection == "validation"

DetectionFailedPc_NoRaise == "validation"

DetectionFailedPc == "raised"

DetectionEnd ==
    /\ pc = "textract"
    /\ "textract" \in running
    /\ running' = running \ {"textract"}
    /\ \/ \E n \in 0..MaxFields :
            \* exit status 0, fields file written, json.load succeeds
            /\ child_result' = [child_result EXCEPT !["textract"] = "ok"]
            /\ files' = [files EXCEPT ![fields_file] = Artifact("textract", n)]
            /\ steps' = DictSet(steps, "textract", "success")
            /\ pc' = AfterDetection
            /\ raised' = raised
       \/   \* exit status 0, open/json.load of the fields file raises
            /\ child_result' = [child_result EXCEPT !["textract"] = "bad_output"]
            /\ files' = [files EXCEPT ![fields_file] = Unreadable("textract")]
            /\ steps' = steps
            /\ Propagate("OtherError")
       \/   \* CalledProcessError: record failed, re-raise
            /\ child_result' = [child_result EXCEPT !["textract"] = "nonzero"]
            /\ files' = files
            /\ steps' = DictSet(steps, "textract", "failed")
            /\ pc' = DetectionFailedPc
            /\ raised' = IF DetectionFailedPc = "raised"
                         THEN "CalledProcessError" ELSE raised
    /\ UNCHANGED <<sizingVars, batchVars, refineVars, underlineVars>>
    /\ UNCHANGED <<input_exists, skip_validation, skip_sizing,
                   keep_intermediates, current_fields_file, stage_input,
                   returned>>

(***************************************************************************)
(* STEP 2, lines 104-145                                                   *)
(***************************************************************************)
ValidationSkip_NoRecord ==
    /\ pc = "validation"
    /\ running = {}
    /\ skip_validation
    /\ current_fields_file' = fields_file
    /\ pc' = "sizing"
    /\ UNCHANGED <<sizingVars, batchVars, refineVars, underlineVars>>
    /\ UNCHANGED <<running, child_result, input_exists, skip_validation,
                   skip_sizing, keep_intermediates, files, stage_input,
                   raised, returned, steps>>

ValidationSkip ==
    /\ pc = "validation"
    /\ running = {}
    /\ skip_validation
    /\ current_fields_file' = fields_file
    /\ steps' = DictSet(steps, "validation", "skipped")
    /\ pc' = "sizing"
    /\ UNCHANGED <<sizingVars, batchVars, refineVars, underlineVars>>
    /\ UNCHANGED <<running, child_result, input_exists, skip_validation,
                   skip_sizing, keep_intermediates, files, stage_input,
                   raised, returned>>

ValidationStart ==
    /\ ~skip_validation
    /\ Launch("validation", fields_file)

ValidationFallbackFile == fields_file

(* Lines 107, 116, 149, 158: each child is given --output with a file of   *)
(* its own in the working directory, never the file it reads.              *)
OutputFileOf_InPlace(s, input) == input

OutputFileOf(s, input) ==
    IF s = "validation" THEN validated_file ELSE sized_file

(* A child that ends with a non-zero status has written nothing, or has    *)
(* left an unfinished file at its --output path.                           *)
FailedChildFiles(s) ==
    { files,
      [files EXCEPT ![OutputFileOf(s, stage_input[s].file)] = Unreadable(s)] }

ValidationEnd ==
    /\ pc = "validation"
    /\ "validation" \in running
    /\ running' = running \ {"validation"}
    /\ \/ \E n \in 0..MaxFields :
            \* exit status 0, validated file written, json.load succeeds
            /\ child_result' = [child_result EXCEPT !["validation"] = "ok"]
            /\ files' = [files EXCEPT
                             ![OutputFileOf("validation",
                                            stage_input["validation"].file)] =
                                 Artifact("validation", n)]
            /\ steps' = DictSet(steps, "validation", "success")
            /\ current_fields_file' = validated_file
            /\ pc' = "sizing"
            /\ raised' = raised
       \/   \* exit status 0, open/json.load of the validated file raises
            /\ child_result' = [child_result EXCEPT !["validation"] = "bad_output"]
            /\ files' = [files EXCEPT ![validated_file] = Unreadable("validation")]
            /\ steps' = steps
            /\ current_fields_file' = current_fields_file
            /\ Propagate("OtherError")
       \/   \* CalledProcessError: continue with Textract-only results
            /\ child_result' = [child_result EXCEPT !["validation"] = "nonzero"]
            /\ files' \in FailedChildFiles("validation")
            /\ current_fields_file' = ValidationFallbackFile
            /\ steps' = DictSet(steps, "validation", "failed")
            /\ pc' = "sizing"
            /\ raised' = raised
    /\ UNCHANGED <<sizingVars, batchVars, refineVars, underlineVars>>
    /\ UNCHANGED <<input_exists, skip_validation, skip_sizing,
                   keep_intermediates, stage_input, returned>>

(***************************************************************************)
(* STEP 3, lines 147-182                                                   *)
(***************************************************************************)
SizingSkip ==
    /\ pc = "sizing"
    /\ running = {}
    /\ skip_sizing
    /\ steps' = DictSet(steps, "sizing", "skipped")
    /\ pc' = "generation"
    /\ UNCHANGED <<sizingVars, batchVars, refineVars, underlineVars>>
    /\ UNCHANGED <<running, child_result, input_exists, skip_validation,
                   skip_sizing, keep_intermediates, current_fields_file,
                   files, stage_input, raised, returned>>

SizingStart ==
    /\ ~skip_sizing
    /\ Launch("sizing", current_fields_file)

SizingFailedFile_Sized(cur) == sized_file

SizingFailedFile(cur) == cur

SizingEnd ==
    /\ pc = "sizing"
    /\ "sizing" \in running
    /\ running' = running \ {"sizing"}
    /\ \/ \E n \in 0..stage_input["sizing"].content.count :
            \* exit status 0, sized file written (not read back here)
            /\ child_result' = [child_result EXCEPT !["sizing"] = "ok"]
            /\ files' = [files EXCEPT
                             ![OutputFileOf("sizing",
                                            stage_input["sizing"].file)] =
                                 Artifact("sizing", n)]
            /\ steps' = DictSet(steps, "sizing", "success")
            /\ current_fields_file' = sized_file
       \/   \* CalledProcessError: continue with unsized fields
            /\ child_result' = [child_result EXCEPT !["sizing"] = "nonzero"]
            /\ files' \in FailedChildFiles("sizing")
            /\ steps' = DictSet(steps, "sizing", "failed")
            /\ current_fields_file' = SizingFailedFile(current_fields_file)
    /\ pc' = "generation"
    /\ UNCHANGED <<sizingVars, batchVars, refineVars, underlineVars>>
    /\ UNCHANGED <<input_exists, skip_validation, skip_sizing,
                   keep_intermediates, stage_input, raised, returned>>

(***************************************************************************)
(* STEP 4, lines 184-212                                                   *)
(***************************************************************************)
GenerationStart == Launch("generation", current_fields_file)

GenerationFailedPc_NoRaise == "quality_check"

GenerationFailedPc == "raised"

GenerationEnd ==
    /\ pc = "generation"
    /\ "generation" \in running
    /\ running' = running \ {"generation"}
    /\ \/   \* exit status 0, output PDF written
            /\ child_result' = [child_result EXCEPT !["generation"] = "ok"]
            /\ files' = [files EXCEPT ![output_pdf] =
                           Artifact("generation", stage_input["generation"].content.count)]
            /\ steps' = DictSet(steps, "generation", "success")
            /\ pc' = "quality_check"
            /\ raised' = raised
       \/   \* CalledProcessError: record failed, re-raise
            /\ child_result' = [child_result EXCEPT !["generation"] = "nonzero"]
            /\ files' = files
            /\ steps' = DictSet(steps, "generation", "failed")
            /\ pc' = GenerationFailedPc
            /\ raised' = IF GenerationFailedPc = "raised"
                         THEN "CalledProcessError" ELSE raised
    /\ UNCHANGED <<sizingVars, batchVars, refineVars, underlineVars>>
    /\ UNCHANGED <<input_exists, skip_validation, skip_sizing,
                   keep_intermediates, current_fields_file, stage_input,
                   returned>>

(***************************************************************************)
(* STEP 5, lines 214-247                                                   *)
(***************************************************************************)
QualityStart == Launch("quality_check", output_pdf)

QualityEnd ==
    /\ pc = "quality_check"
    /\ "quality_check" \in running
    /\ running' = running \ {"quality_check"}
    /\ \/   \* exit status 0, report written, json.load succeeds
            /\ child_result' = [child_result EXCEPT !["quality_check"] = "ok"]
            /\ files' = [files EXCEPT ![validation_report] = Artifact("quality_check", 0)]
            /\ steps' = DictSet(steps, "quality_check", "success")
            /\ pc' = "cleanup"
            /\ raised' = raised
       \/   \* exit status 0, open/json.load of the report raises
            /\ child_result' = [child_result EXCEPT !["quality_check"] = "bad_output"]
            /\ files' = [files EXCEPT ![validation_report] = Unreadable("quality_check")]
            /\ steps' = steps
            /\ Propagate("OtherError")
       \/   \* CalledProcessError: recorded only
            /\ child_result' = [child_result EXCEPT !["quality_check"] = "nonzero"]
            /\ files' = files
            /\ steps' = DictSet(steps, "quality_check", "failed")
            /\ pc' = "cleanup"
            /\ raised' = raised
    /\ UNCHANGED <<sizingVars, batchVars, refineVars, underlineVars>>
    /\ UNCHANGED <<input_exists, skip_validation, skip_sizing,
                   keep_intermediates, current_fields_file, stage_input,
                   returned>>

(***************************************************************************)
(* Lines 249-269: cleanup of work_dir/*.json and return results            *)
(***************************************************************************)
(* Lines 250-257: work_dir/*.json is unlinked unless keep_intermediates.   *)
CleanedUp_Always(fs, keep) ==
    [f \in FileNames |-> IF f \in IntermediateFiles THEN NoFile ELSE fs[f]]

CleanedUp(fs, keep) ==
    IF keep
    THEN fs
    ELSE [f \in FileNames |-> IF f \in IntermediateFiles
                              THEN NoFile ELSE fs[f]]

CleanupAndReturn ==
    /\ pc = "cleanup"
    /\ running = {}
    /\ files' = CleanedUp(files, keep_intermediates)
    /\ returned' = steps
    /\ pc' = "returned"
    /\ UNCHANGED <<sizingVars, batchVars, refineVars, underlineVars>>
    /\ UNCHANGED <<running, child_result, input_exists, skip_validation, skip_sizing,
                   keep_intermediates, steps, current_fields_file,
                   stage_input, raised>>

Next ==
    \/ Entry
    \/ DetectionStart
    \/ DetectionEnd
    \/ ValidationSkip
    \/ ValidationStart
    \/ ValidationEnd
    \/ SizingSkip
    \/ SizingStart
    \/ SizingEnd
    \/ GenerationStart
    \/ GenerationEnd
    \/ QualityStart
    \/ QualityEnd
    \/ CleanupAndReturn

Spec == Init /\ [][Next]_vars

Aborted == pc = "raised"

Completed == pc = "returned"

TypeOK ==
    /\ pc \in Stages \cup {"entry", "cleanup", "returned", "raised"}
    /\ running \subseteq Stages
    /\ child_result \in [Stages -> {"none", "ok", "bad_output", "nonzero"}]
    /\ Len(steps) <= Len(StageOrder)
    /\ current_fields_file \in {"unset", fields_file, validated_file, sized_file}

(***************************************************************************)
(* field_sizing.py                                                         *)
(*                                                                         *)
(* Normalized coordinates (floats in the source) are counted in units of   *)
(* 1/Unit; pixel quantities are integers as in the source (int(...)).      *)
(***************************************************************************)
Unit == 10000

Min2(a, b) == IF a <= b THEN a ELSE b

Max2(a, b) == IF a >= b THEN a ELSE b

(* dict.get(k, default) *)
Get(d, k, default) == IF k \in DOMAIN d THEN d[k] ELSE default

(* int(x * dim) for a normalized x >= 0 *)
ToPx(x, dim) == (x * dim) \div Unit

(* int(c * dim) for the constant c = num/1000 *)
Frac(num, dim) == (num * dim) \div 1000

(* lines 395-417 *)
boxes_overlap(bbox1, bbox2) ==
    LET left1 == Get(bbox1, "left", 0)
        top1 == Get(bbox1, "top", 0)
        right1 == left1 + Get(bbox1, "width", 0)
        bottom1 == top1 + Get(bbox1, "height", 0)
        left2 == Get(bbox2, "left", 0)
        top2 == Get(bbox2, "top", 0)
        right2 == left2 + Get(bbox2, "width", 0)
        bottom2 == top2 + Get(bbox2, "height", 0)
    IN ~(right1 < left2 \/ left1 > right2 \/ bottom1 < top2 \/ top1 > bottom2)

(* lines 367-392; "is" compares object identity, kept in the obj component *)
has_overlap_IncludesSelf(bbox, all_fields, current_field) ==
    \E i \in 1..Len(all_fields) :
        /\ all_fields[i].page = current_field.page
        /\ boxes_overlap(bbox, all_fields[i].bounding_box)

has_overlap(bbox, all_fields, current_field) ==
    \E i \in 1..Len(all_fields) :
        /\ all_fields[i].obj # current_field.obj
        /\ all_fields[i].page = current_field.page
        /\ boxes_overlap(bbox, all_fields[i].bounding_box)

(* lines 193-205: the type-specific adjustments, in pixels.  A checkbox is  *)
(* made square, a textarea at least a tenth of the page high, a signature  *)
(* at least a fifth of the page wide and a twentieth high.                 *)
TypeWidthPx_CheckboxKeepsWidth(field_type, width0, height0, img_width) ==
    IF field_type = "signature"
    THEN Max2(width0, Frac(200, img_width))
    ELSE width0

TypeWidthPx(field_type, width0, height0, img_width) ==
    IF field_type = "checkbox" THEN Min2(width0, height0)
    ELSE IF field_type = "signature"
         THEN Max2(width0, Frac(200, img_width))
         ELSE width0

TypeHeightPx(field_type, width0, height0, img_height) ==
    IF field_type = "checkbox" THEN Min2(width0, height0)
    ELSE IF field_type = "textarea"
         THEN Max2(height0, Frac(100, img_height))
         ELSE IF field_type = "signature"
              THEN Max2(height0, Frac(50, img_height))
              ELSE height0

(* lines 170-171, 190-191: optimized_left = bbox["left"], optimized_top = *)
(* bbox["top"]: the normalized value itself, not the truncated pixel one.  *)
OptimizedOrigin_FromPixels(bbox, key, dim) == (ToPx(bbox[key], dim) * Unit) \div dim

OptimizedOrigin(bbox, key, dim) == bbox[key]

(* lines 163-188: the evidence step, in pixels.  With an underline the     *)
(* size is the line's width and max(line height, int(0.015 * page height)) *)
(* and the other two analyses are not run; without one it comes from the   *)
(* white run and the text height.                                          *)
EvidenceWidthPx(ev, img_width) ==
    IF ev.underline # 0
    THEN ev.underline
    ELSE Min2(ev.horizontal_extent, Frac(500, img_width))

EvidenceHeightPx_Unpadded(ev, height_px, img_height) ==
    IF ev.underline # 0
    THEN Max2(3, Frac(15, img_height))
    ELSE Max2(Max2(ev.text_height, Frac(15, img_height)),
              Min2(height_px, Frac(40, img_height)))

EvidenceHeightPx(ev, height_px, img_height) ==
    IF ev.underline # 0
    THEN Max2(3, Frac(15, img_height))
    ELSE Max2(Max2((ev.text_height * 12) \div 10, Frac(15, img_height)),
              Min2(height_px, Frac(40, img_height)))

(* lines 144-221.  ev is what detect_underline_or_box, analyze_white_space *)
(* and estimate_text_height return for the window cropped around the       *)
(* field: ev.underline = 0 stands for None.  The result is the bounding    *)
(* box, or the KeyError of bbox["left"] / bbox["top"].                     *)
optimize_field_bbox(field, image, ev, all_fields) ==
    LET bbox == field.bounding_box
        field_type == field.field_type
        img_width == image.width
        img_height == image.height
        height_px == ToPx(Get(bbox, "height", Unit \div 50), img_height)
        width0 == EvidenceWidthPx(ev, img_width)
        height0 == EvidenceHeightPx(ev, height_px, img_height)
        optimized_width_px == TypeWidthPx(field_type, width0, height0, img_width)
        optimized_height_px == TypeHeightPx(field_type, width0, height0, img_height)
        optimized_bbox ==
            [left |-> OptimizedOrigin(bbox, "left", img_width),
             top |-> OptimizedOrigin(bbox, "top", img_height),
             width |-> (optimized_width_px * Unit) \div img_width,
             height |-> (optimized_height_px * Unit) \div img_height]
        shrunk ==
            [optimized_bbox EXCEPT !.width = (@ * 9) \div 10,
                                   !.height = (@ * 9) \div 10]
    IN IF "left" \notin DOMAIN bbox \/ "top" \notin DOMAIN bbox
       THEN [raised |-> TRUE, bbox |-> bbox]
       ELSE [raised |-> FALSE,
             bbox |-> IF has_overlap(optimized_bbox, all_fields, field)
                      THEN shrunk ELSE optimized_bbox]

(* lines 68-74 and 81: fields_by_page.get(page_num, []) *)
PageFields(fields, p) == SelectSeq(fields, LAMBDA f : f.page = p)

(* sum(...) / len(optimized_fields) if optimized_fields else 0 *)
RECURSIVE SumOf(_, _)
SumOf(fs, k) ==
    IF fs = <<>> THEN 0
    ELSE Get(Head(fs).bounding_box, k, 0) + SumOf(Tail(fs), k)

Avg(fs, k) == IF fs = <<>> THEN 0 ELSE SumOf(fs, k) \div Len(fs)

(* Inputs of the Sizing program *)
FieldTypes == {"text", "checkbox"}

BoxChoices ==
    { [left |-> 1000, top |-> 2000, width |-> 2000, height |-> 200],
      [left |-> 2000, top |-> 2000, width |-> 3000, height |-> 500],
      [width |-> 2000, height |-> 200] }

EvidenceChoices ==
    { [underline |-> 30, horizontal_extent |-> 0, text_height |-> 12],
      [underline |-> 0, horizontal_extent |-> 40, text_height |-> 12],
      [underline |-> 0, horizontal_extent |-> 8, text_height |-> 5] }

ImageSizes == { [width |-> 100, height |-> 100], [width |-> 100, height |-> 200] }

FieldChoices(i) ==
    { [obj |-> i, page |-> p, field_type |-> t, bounding_box |-> b] :
          p \in 1..MaxPage, t \in FieldTypes, b \in BoxChoices }

FieldLists ==
    UNION { { fs \in [1..n -> UNION {FieldChoices(i) : i \in 1..n}] :
                \A i \in 1..n : fs[i].obj = i } : n \in 0..MaxSizingFields }

InitSizing ==
    /\ pc = "entry"
    /\ running = {}
    /\ child_result = [s \in Stages |-> "none"]
    /\ input_exists = TRUE
    /\ skip_validation = FALSE
    /\ skip_sizing = FALSE
    /\ keep_intermediates = FALSE
    /\ steps = <<>>
    /\ current_fields_file = "unset"
    /\ files = [f \in FileNames |-> NoFile]
    /\ stage_input = [s \in Stages |-> NoInput]
    /\ raised = "none"
    /\ returned = NotReturned
    /\ BatchIdle
    /\ RefineIdle
    /\ UnderlineIdle
    /\ sz_pc = "load"
    /\ \E fs \in FieldLists, k \in {"validated_fields", "fields", "none"},
          e \in BOOLEAN :
          /\ (k = "none" \/ ~e) => fs = <<>>
          /\ fields_data = [exists |-> e, key |-> k, list |-> fs]
          /\ pixels \in [1..Len(fs) -> EvidenceChoices]
    /\ \E n \in 1..MaxImages, sz \in ImageSizes :
          images = [count |-> n, width |-> sz.width, height |-> sz.height]
    /\ page_num = 0
    /\ field_idx = 0
    /\ optimized_fields = <<>>
    /\ sz_result = NoResult
    /\ exit_code = "none"

(* main(), lines 453-457: any exception is printed and main returns 1 *)
MainCatches ==
    /\ sz_pc' = "done"
    /\ exit_code' = "1"
    /\ sz_result' = sz_result

(* lines 38-66: the existence checks, load the fields list, rasterize *)
SizingLoad ==
    /\ sz_pc = "load"
    /\ IF ~fields_data.exists \/ fields_data.key = "none"
       THEN /\ MainCatches      \* FileNotFoundError or ValueError
            /\ page_num' = page_num
       ELSE /\ sz_pc' = "pages"
            /\ page_num' = 1
            /\ UNCHANGED <<sz_result, exit_code>>
    /\ field_idx' = 1
    /\ UNCHANGED <<fields_data, images, pixels, optimized_fields>>
    /\ UNCHANGED <<coordVars, batchVars, refineVars, underlineVars>>

(* lines 83-85: a page without fields *)
SkipPage ==
    /\ sz_pc = "pages"
    /\ page_num <= images.count
    /\ PageFields(fields_data.list, page_num) = <<>>
    /\ page_num' = page_num + 1
    /\ UNCHANGED <<sz_pc, fields_data, images, pixels, field_idx,
                   optimized_fields, sz_result, exit_code>>
    /\ UNCHANGED <<coordVars, batchVars, refineVars, underlineVars>>

(* lines 89-101: one iteration of the field loop *)
OptimizeField ==
    /\ sz_pc = "pages"
    /\ page_num <= images.count
    /\ LET page_fields == PageFields(fields_data.list, page_num)
       IN /\ field_idx <= Len(page_fields)
          /\ LET field == page_fields[field_idx]
                 r == optimize_field_bbox(field, images, pixels[field.obj],
                                          page_fields)
             IN IF r.raised
                THEN /\ MainCatches
                     /\ UNCHANGED <<optimized_fields, page_num, field_idx>>
                ELSE /\ optimized_fields' =
                          Append(optimized_fields,
                                 [obj |-> field.obj,
                                  page |-> field.page,
                                  field_type |-> field.field_type,
                                  bounding_box |-> r.bbox,
                                  sizing_method |-> "intelligent"])
                     /\ IF field_idx = Len(page_fields)
                        THEN page_num' = page_num + 1 /\ field_idx' = 1
                        ELSE page_num' = page_num /\ field_idx' = field_idx + 1
                     /\ UNCHANGED <<sz_pc, sz_result, exit_code>>
    /\ UNCHANGED <<fields_data, images, pixels>>
    /\ UNCHANGED <<coordVars, batchVars, refineVars, underlineVars>>

(* lines 105-120 and main(): build the result, write it, return 0 *)
BuildOutput ==
    /\ sz_pc = "pages"
    /\ page_num > images.count
    /\ sz_result' = [written |-> TRUE,
                     validated_fields |-> optimized_fields,
                     sizing_applied |-> TRUE,
                     sizing_stats |->
                         [total_fields |-> Len(optimized_fields),
                          avg_width |-> Avg(optimized_fields, "width"),
                          avg_height |-> Avg(optimized_fields, "height")]]
    /\ sz_pc' = "done"
    /\ exit_code' = "0"
    /\ UNCHANGED <<fields_data, images, pixels, page_num, field_idx,
                   optimized_fields>>
    /\ UNCHANGED <<coordVars, batchVars, refineVars, underlineVars>>

NextSizing ==
    \/ SizingLoad
    \/ SkipPage
    \/ OptimizeField
    \/ BuildOutput

SpecSizing == InitSizing /\ [][NextSizing]_vars

(***************************************************************************)
(* batch_convert.py: batch_convert, its workers and process_single_pdf     *)
(***************************************************************************)
(* run_conversion_pipeline not running                                     *)
CoordIdle ==
    /\ pc = "entry"
    /\ running = {}
    /\ child_result = [s \in Stages |-> "none"]
    /\ input_exists = TRUE
    /\ skip_validation = FALSE
    /\ skip_sizing = FALSE
    /\ keep_intermediates = FALSE
    /\ steps = <<>>
    /\ current_fields_file = "unset"
    /\ files = [f \in FileNames |-> NoFile]
    /\ stage_input = [s \in Stages |-> NoInput]
    /\ raised = "none"
    /\ returned = NotReturned

(* main(), lines 271-275: --template-learning forces one worker.           *)
MainParallel(requested, learning) ==
    IF learning /\ requested > 1 THEN 1 ELSE requested

InitBatch ==
    /\ CoordIdle
    /\ SizingIdle
    /\ RefineIdle
    /\ UnderlineIdle
    /\ b_pc = "entry"
    /\ input_dir_exists \in BOOLEAN
    /\ \E n \in 0..MaxDocs :
          /\ ~input_dir_exists => n = 0
          /\ pdf_files = [d \in 1..n |-> d]
    /\ template_learning \in BOOLEAN
    /\ \E requested \in 1..MaxWorkers, caller \in {"main", "batch_convert"} :
          parallel = IF caller = "main"
                     THEN MainParallel(requested, template_learning)
                     ELSE requested
    /\ template_data = 0
    /\ results = EmptyReport(0)
    /\ doc_pc = [d \in Docs |-> "idle"]
    /\ doc_result = [d \in Docs |-> NoDocResult]
    /\ doc_template = [d \in Docs |-> 0]
    /\ doc_fault = [d \in Docs |-> "none"]

Files == 1..Len(pdf_files)

InWorker == {"analyze", "detect", "validate", "generate"}

InProgress == {d \in Files : doc_pc[d] \in InWorker}

(* Line 202: the branch that chooses the process pool.                     *)
UseParallel_IgnoresLearning(workers, learning) == workers > 1

UseParallel(workers, learning) == workers > 1 /\ ~learning

(* Lines 168-205: the input checks, the report, the submission of every    *)
(* file to the pool (parallel branch) or the start of the loop.            *)
BatchEntry ==
    /\ b_pc = "entry"
    /\ IF ~input_dir_exists \/ Len(pdf_files) = 0
       THEN /\ b_pc' = "raised"
            /\ UNCHANGED <<results, doc_pc, doc_template>>
       ELSE /\ results' = EmptyReport(Len(pdf_files))
            /\ IF UseParallel(parallel, template_learning)
               THEN /\ b_pc' = "parallel"
                    /\ doc_pc' = [d \in Docs |-> IF d \in Files THEN "queued"
                                                 ELSE "idle"]
                    /\ doc_template' = [d \in Docs |-> template_data]
               ELSE /\ b_pc' = "sequential"
                    /\ UNCHANGED <<doc_pc, doc_template>>
    /\ UNCHANGED <<input_dir_exists, pdf_files, parallel, template_learning,
                   template_data, doc_result, doc_fault>>
    /\ UNCHANGED <<coordVars, sizingVars, refineVars, underlineVars>>

(* Lines 29-34: the result dictionary process_single_pdf starts from.      *)
NewResult(d) == [filename |-> d, status |-> "success", fields_detected |-> 0,
                 errors |-> <<>>, output_file |-> FALSE]

(* ProcessPoolExecutor(max_workers=parallel): a free worker takes the      *)
(* oldest submitted file.                                                  *)
WorkerStart(d) ==
    /\ b_pc = "parallel"
    /\ doc_pc[d] = "queued"
    /\ \A e \in Files : e < d => doc_pc[e] # "queued"
    /\ Cardinality(InProgress) < parallel
    /\ doc_pc' = [doc_pc EXCEPT ![d] = "analyze"]
    /\ doc_result' = [doc_result EXCEPT ![d] = NewResult(d)]
    /\ UNCHANGED <<b_pc, input_dir_exists, pdf_files, parallel,
                   template_learning, template_data, results, doc_template,
                   doc_fault>>
    /\ UNCHANGED <<coordVars, sizingVars, refineVars, underlineVars>>

(* Lines 223-224: the sequential loop calls process_single_pdf for the     *)
(* next file once the previous call has returned and been counted.         *)
SequentialStart(d) ==
    /\ b_pc = "sequential"
    /\ d = results.processed + 1
    /\ doc_pc[d] = "idle"
    /\ doc_pc' = [doc_pc EXCEPT ![d] = "analyze"]
    /\ doc_result' = [doc_result EXCEPT ![d] = NewResult(d)]
    /\ doc_template' = [doc_template EXCEPT ![d] = template_data]
    /\ UNCHANGED <<b_pc, input_dir_exists, pdf_files, parallel,
                   template_learning, template_data, results, doc_fault>>
    /\ UNCHANGED <<coordVars, sizingVars, refineVars, underlineVars>>

(* Lines 139-146: both except clauses set status "error", append one       *)
(* message and fall through to the return.                                 *)
Failed(r, msg) == [r EXCEPT !.status = "error", !.errors = Append(@, msg)]

DocStep(d, next, r, fault) ==
    /\ doc_pc' = [doc_pc EXCEPT ![d] = next]
    /\ doc_result' = [doc_result EXCEPT ![d] = r]
    /\ doc_fault' = [doc_fault EXCEPT ![d] = fault]
    /\ UNCHANGED <<b_pc, input_dir_exists, pdf_files, parallel,
                   template_learning, template_data, results, doc_template>>
    /\ UNCHANGED <<coordVars, sizingVars, refineVars, underlineVars>>

(* Lines 37-51: the working directory and analyze_pdf.py, check=True.      *)
Analyze(d) ==
    /\ doc_pc[d] = "analyze"
    /\ \E exit \in {"ok", "nonzero"} :
          IF exit = "ok"
          THEN DocStep(d, "detect", doc_result[d], "none")
          ELSE DocStep(d, "finished",
                       Failed(doc_result[d], "Pipeline error"), "analyze")

(* Lines 110-117: fields_detected and the warning for an empty form.       *)
Counted(r, n) ==
    IF n = 0
    THEN [r EXCEPT !.fields_detected = n, !.status = "warning",
                   !.errors = Append(@, "No fields detected")]
    ELSE [r EXCEPT !.fields_detected = n]

(* Lines 53-117: with AWS configured the detection command is built but    *)
(* not run, so fields.json is whatever an earlier batch left in the        *)
(* working directory; otherwise it is written from analysis.json.  Either  *)
(* way the file is then loaded: the load raises, or yields a field count,  *)
(* of which the code tells zero from any other.                            *)
Detect(d) ==
    /\ doc_pc[d] = "detect"
    /\ \/ DocStep(d, "finished", Failed(doc_result[d], "Exception"), "detect")
       \/ \E n \in {0, MaxBatchFields} :
             DocStep(d, "validate", Counted(doc_result[d], n), "none")

(* Lines 119-129: vision_validation.py, check=True.                        *)
Validate(d) ==
    /\ doc_pc[d] = "validate"
    /\ \E exit \in {"ok", "nonzero"} :
          IF exit = "ok"
          THEN DocStep(d, "generate", doc_result[d], "none")
          ELSE DocStep(d, "finished",
                       Failed(doc_result[d], "Pipeline error"), "validate")

(* Lines 131-144: generate_fillable_pdf.py, check=True, output_file.       *)
Generate(d) ==
    /\ doc_pc[d] = "generate"
    /\ \E exit \in {"ok", "nonzero"} :
          IF exit = "ok"
          THEN DocStep(d, "finished",
                       [doc_result[d] EXCEPT !.output_file = TRUE], "none")
          ELSE DocStep(d, "finished",
                       Failed(doc_result[d], "Pipeline error"), "generate")

(* Lines 214-219 and 229-239: the counter a result is added to.            *)
CounterOf_OnlyFailed(status) ==
    IF status = "success" THEN "successful"
    ELSE IF status = "warning" THEN "warnings"
    ELSE IF status = "failed" THEN "failed"
    ELSE "none"

CounterOf(status) ==
    IF status = "success" THEN "successful"
    ELSE IF status = "warning" THEN "warnings"
    ELSE "failed"

(* Lines 212-219, 225-239: append the result and count it.                 *)
Record(rep, r) ==
    LET c == CounterOf(r.status)
    IN [rep EXCEPT !.files = Append(@, r),
                   !.processed = @ + 1,
                   !.successful = IF c = "successful" THEN @ + 1 ELSE @,
                   !.warnings = IF c = "warnings" THEN @ + 1 ELSE @,
                   !.failed = IF c = "failed" THEN @ + 1 ELSE @]

(* Line 211: future.result() is what the worker of that future returned.   *)
FutureResult_OfFirst(d) == doc_result[1]

FutureResult(d) == doc_result[d]

(* Lines 210-219: as_completed yields a finished future, in the order the  *)
(* workers finish.                                                         *)
RecordCompleted(d) ==
    /\ b_pc = "parallel"
    /\ doc_pc[d] = "finished"
    /\ results' = Record(results, FutureResult(d))
    /\ doc_pc' = [doc_pc EXCEPT ![d] = "recorded"]
    /\ UNCHANGED <<b_pc, input_dir_exists, pdf_files, parallel,
                   template_learning, template_data, doc_result, doc_template,
                   doc_fault>>
    /\ UNCHANGED <<coordVars, sizingVars, refineVars, underlineVars>>

(* Lines 229-235: the template after the result of file d was counted.     *)
NextTemplate_LatestSuccess(template, learning, d, status) ==
    IF status = "success" /\ learning THEN d ELSE template

NextTemplate(template, learning, d, status) ==
    IF status = "success" /\ learning /\ template = 0 THEN d ELSE template

(* Lines 225-239: the sequential loop counts the returned result and, with *)
(* template learning, keeps the first successful one as the template.      *)
RecordSequential(d) ==
    /\ b_pc = "sequential"
    /\ doc_pc[d] = "finished"
    /\ results' = Record(results, doc_result[d])
    /\ template_data' = NextTemplate(template_data, template_learning, d,
                                      doc_result[d].status)
    /\ doc_pc' = [doc_pc EXCEPT ![d] = "recorded"]
    /\ UNCHANGED <<b_pc, input_dir_exists, pdf_files, parallel,
                   template_learning, doc_result, doc_template, doc_fault>>
    /\ UNCHANGED <<coordVars, sizingVars, refineVars, underlineVars>>

(* Line 241: both loops are exhausted when every file has been counted.    *)
BatchReturn ==
    /\ b_pc \in {"parallel", "sequential"}
    /\ \A d \in Files : doc_pc[d] = "recorded"
    /\ b_pc' = "returned"
    /\ UNCHANGED <<input_dir_exists, pdf_files, parallel, template_learning,
                   template_data, results, doc_pc, doc_result, doc_template,
                   doc_fault>>
    /\ UNCHANGED <<coordVars, sizingVars, refineVars, underlineVars>>

NextBatch ==
    \/ BatchEntry
    \/ \E d \in Docs : d \in Files /\ WorkerStart(d)
    \/ \E d \in Docs : d \in Files /\ SequentialStart(d)
    \/ \E d \in Docs : d \in Files /\ Analyze(d)
    \/ \E d \in Docs : d \in Files /\ Detect(d)
    \/ \E d \in Docs : d \in Files /\ Validate(d)
    \/ \E d \in Docs : d \in Files /\ Generate(d)
    \/ \E d \in Docs : d \in Files /\ RecordCompleted(d)
    \/ \E d \in Docs : d \in Files /\ RecordSequential(d)
    \/ BatchReturn

SpecBatch == InitBatch /\ [][NextBatch]_vars

(***************************************************************************)
(* field_sizing.py: optimize_field_bbox called for the fields of one page  *)
(***************************************************************************)
RefineTypes == {"text", "checkbox", "textarea", "signature"}

(* Candidates with a valid normalized bounding box: two that overlap near  *)
(* the page's lower right, the first not aligned to the pixel grid.        *)
RefineBoxes ==
    { [left |-> 7050, top |-> 9050, width |-> 2000, height |-> 200],
      [left |-> 8000, top |-> 9000, width |-> 1500, height |-> 500] }

(* An underline of 30 pixels; no underline and 20 white pixels to the       *)
(* right; no underline and a field position that is not white.             *)
RefineEvidence ==
    { [underline |-> 30, horizontal_extent |-> 0, text_height |-> 12],
      [underline |-> 0, horizontal_extent |-> 20, text_height |-> 12],
      [underline |-> 0, horizontal_extent |-> 0, text_height |-> 5] }

(* lines 148-164: the window cropped around the field, and the field's     *)
(* position in it.                                                         *)
Region(bbox, image) ==
    LET left_px == ToPx(Get(bbox, "left", 0), image.width)
        top_px == ToPx(Get(bbox, "top", 0), image.height)
        width_px == ToPx(Get(bbox, "width", Unit \div 5), image.width)
        height_px == ToPx(Get(bbox, "height", Unit \div 50), image.height)
        region_left == Max2(0, left_px - 50)
        region_top == Max2(0, top_px - 50)
        region_right == Min2(image.width, left_px + width_px + 50)
        region_bottom == Min2(image.height, top_px + height_px + 50)
    IN [width |-> region_right - region_left,
        height |-> region_bottom - region_top,
        field_x |-> left_px - region_left,
        field_y |-> top_px - region_top]

(* What the three analyses can return for a window of that size: an        *)
(* underline is more than 10 pixels of one row (lines 255-263), the        *)
(* white run starts at the field and ends at the window's edge or after    *)
(* 500 pixels (lines 293-302), a text height is a run of more than 3       *)
(* pixels of one column, or the default 12 (lines 340-364).                *)
EvidenceFits(bbox, image, ev) ==
    LET r == Region(bbox, image)
    IN /\ ev.underline = 0 \/ (ev.underline > 10 /\ ev.underline <= r.width)
       /\ ev.horizontal_extent <= Max2(0, Min2(500, r.width - r.field_x))
       /\ ev.text_height = 12 \/ (ev.text_height > 3 /\ ev.text_height <= r.height)

NotCalled == [left |-> 0 - 1, top |-> 0 - 1, width |-> 0 - 1, height |-> 0 - 1]

InitRefine ==
    /\ CoordIdle
    /\ SizingIdle
    /\ BatchIdle
    /\ UnderlineIdle
    /\ rf_image \in ImageSizes
    /\ \E n \in 1..MaxRefineFields :
          /\ \E t \in [1..n -> RefineTypes], b \in [1..n -> RefineBoxes] :
                rf_fields = [i \in 1..n |->
                                [obj |-> i, page |-> 1, field_type |-> t[i],
                                 bounding_box |-> b[i]]]
          /\ rf_pixels \in [1..n -> RefineEvidence]
          /\ \A i \in 1..n :
                EvidenceFits(rf_fields[i].bounding_box, rf_image, rf_pixels[i])
          /\ rf_first = [i \in 1..n |-> NotCalled]
          /\ rf_last = [i \in 1..n |-> NotCalled]
          /\ rf_calls = [i \in 1..n |-> "none"]

(* lines 97-101: the caller puts the returned box in a copy of the field;  *)
(* neither it nor optimize_field_bbox assigns to the field or the list.    *)
FieldsAfterCall_InPlace(fields, i, bbox) ==
    [fields EXCEPT ![i].bounding_box = bbox]

FieldsAfterCall(fields, i, bbox) == fields

(* The all_fields argument of a call (lines 87, 91-95): page_fields, the   *)
(* candidates of the page as they were loaded.                             *)
SiblingsSeen_Refined(fields, last, calls) ==
    [j \in DOMAIN fields |->
        IF calls[j] # "none"
        THEN [fields[j] EXCEPT !.bounding_box = last[j]]
        ELSE fields[j]]

SiblingsSeen(fields, last, calls) == fields

(* One call optimize_field_bbox(field, image, page_fields), lines 123-221. *)
RefineCall(i) ==
    /\ i \in DOMAIN rf_fields
    /\ \E r \in {optimize_field_bbox(rf_fields[i], rf_image, rf_pixels[i],
                      SiblingsSeen(rf_fields, rf_last, rf_calls))} :
          /\ ~r.raised
          /\ rf_last' = [rf_last EXCEPT ![i] = r.bbox]
          /\ rf_first' = IF rf_calls[i] = "none"
                         THEN [rf_first EXCEPT ![i] = r.bbox]
                         ELSE rf_first
          /\ rf_calls' = [rf_calls EXCEPT ![i] =
                              IF @ = "none" THEN "once" ELSE "again"]
          /\ rf_fields' = FieldsAfterCall(rf_fields, i, r.bbox)
    /\ UNCHANGED <<rf_image, rf_pixels>>
    /\ UNCHANGED <<coordVars, sizingVars, batchVars, underlineVars>>

NextRefine == \E i \in 1..MaxRefineFields : RefineCall(i)

SpecRefine == InitRefine /\ [][NextRefine]_vars

(***************************************************************************)
(* detect_underline_or_box (field_sizing.py, lines 224-269) on the edge    *)
(* image of a region.  A pixel of the model is TRUE when its edge value is *)
(* above the threshold of 100 (line 247).                                  *)
(***************************************************************************)
(* Rows an edge image is made of: no edge; one run over the whole row; two *)
(* runs of six; a run of eleven and a stray pixel; a run of five.          *)
EdgeRows ==
    { [x \in 1..EdgeRowLen |-> FALSE],
      [x \in 1..EdgeRowLen |-> TRUE],
      [x \in 1..EdgeRowLen |-> x \in (1..6) \cup (8..13)],
      [x \in 1..EdgeRowLen |-> x \in (1..11) \cup {13}],
      [x \in 1..EdgeRowLen |-> x \in 1..5] }

EdgeImages == UNION { [1..h -> EdgeRows] : h \in 1..MaxEdgeRows }

InitUnderline ==
    /\ CoordIdle
    /\ SizingIdle
    /\ BatchIdle
    /\ RefineIdle
    /\ ul_pc = "called"
    /\ ul_edges \in EdgeImages
    /\ ul_result = NoUnderline

(* len(np.where(row > threshold)[0]), line 257 *)
EdgeCount(row) == Cardinality({x \in DOMAIN row : row[x]})

(* Number of entries of np.where(edges_array > threshold)[0] that lie in   *)
(* the first r rows: the row index of every edge pixel, in row order.      *)
RECURSIVE EdgesUpTo(_, _)
EdgesUpTo(edges_array, r) ==
    IF r = 0 THEN 0
    ELSE EdgesUpTo(edges_array, r - 1) + EdgeCount(edges_array[r])

(* The k-th entry of that array, counted from 1; rows are numbered from 0. *)
RowIndexAt(edges_array, k) ==
    (CHOOSE r \in 1..Len(edges_array) :
        /\ EdgesUpTo(edges_array, r - 1) < k
        /\ k <= EdgesUpTo(edges_array, r)) - 1

(* int(np.median(horizontal_lines)), line 252: the middle entry, or the    *)
(* mean of the two middle entries, truncated.                              *)
MedianRow(edges_array) ==
    LET n == EdgesUpTo(edges_array, Len(edges_array))
    IN IF n % 2 = 1
       THEN RowIndexAt(edges_array, (n + 1) \div 2)
       ELSE (RowIndexAt(edges_array, n \div 2)
                + RowIndexAt(edges_array, n \div 2 + 1)) \div 2

(* lines 248-269 *)
detect_underline_or_box(edges_array) ==
    IF EdgesUpTo(edges_array, Len(edges_array)) = 0
    THEN NoUnderline
    ELSE LET line_y == MedianRow(edges_array)
             line_pixels == EdgeCount(edges_array[line_y + 1])
         IN IF line_y < Len(edges_array) /\ line_pixels > 10
            THEN [width |-> line_pixels, height |-> 3, type |-> "underline"]
            ELSE NoUnderline

DetectUnderline ==
    /\ ul_pc = "called"
    /\ ul_result' = detect_underline_or_box(ul_edges)
    /\ ul_pc' = "returned"
    /\ UNCHANGED ul_edges
    /\ UNCHANGED <<coordVars, sizingVars, batchVars, refineVars>>

NextUnderline == DetectUnderline

SpecUnderline == InitUnderline /\ [][NextUnderline]_vars

(***************************************************************************)
(* Properties of run_conversion_pipeline                                   *)
(***************************************************************************)
Started(s) == s \in running \/ child_result[s] # "none"

Ended(s) == StatusOf(steps, s) \in {"success", "failed", "skipped"}

Earlier(s) == {t \in Stages : StageIndex(t) < StageIndex(s)}

Later(s) == {t \in Stages : StageIndex(t) > StageIndex(s)}

C2_ValidationFailureDegrades ==
    child_result["validation"] \in {"nonzero", "bad_output"} =>
        /\ StatusOf(steps, "validation") = "failed"
        /\ Aborted => child_result["generation"] # "none"
        /\ (~skip_sizing /\ pc \notin {"validation", "sizing"}) => Started("sizing")
        /\ Started("sizing") =>
              /\ stage_input["sizing"].file = fields_file
              /\ stage_input["sizing"].content = stage_input["validation"].content
              /\ stage_input["sizing"].content.producer = "textract"

LatestGoodFile ==
    IF StatusOf(steps, "sizing") = "success" THEN sized_file
    ELSE IF StatusOf(steps, "validation") = "success" THEN validated_file
    ELSE fields_file

LatestGoodProducer ==
    IF StatusOf(steps, "sizing") = "success" THEN "sizing"
    ELSE IF StatusOf(steps, "validation") = "success" THEN "validation"
    ELSE "textract"

(* C3: when the Sizing child fails, sizing is recorded as failed and       *)
(* Generation still runs on the file that was current before Sizing; in    *)
(* every run Generation is handed the output of the latest of Detection,   *)
(* Validation, Sizing that ended with success.                             *)
C3_SizingFailureDegrades ==
    /\ child_result["sizing"] = "nonzero" =>
          /\ StatusOf(steps, "sizing") = "failed"
          /\ pc # "sizing"
          /\ Aborted => child_result["generation"] # "none"
          /\ pc # "generation" => Started("generation")
          /\ Started("generation") =>
                stage_input["generation"] = stage_input["sizing"]
    /\ Started("generation") =>
          /\ stage_input["generation"].file = LatestGoodFile
          /\ stage_input["generation"].content.kind = "json"
          /\ stage_input["generation"].content.producer = LatestGoodProducer

C3_Witness ==
    /\ child_result["sizing"] = "nonzero"
    /\ child_result["validation"] = "ok"
    /\ child_result["generation"] = "ok"
    /\ stage_input["generation"].file = validated_file

(* C4: when the Generation child fails, generation is recorded as failed,  *)
(* the run is aborted and QualityCheck is neither started nor recorded.    *)
C4_GenerationFailureAborts ==
    child_result["generation"] = "nonzero" =>
        /\ StatusOf(steps, "generation") = "failed"
        /\ Aborted
        /\ ~Started("quality_check")
        /\ stage_input["quality_check"] = NoInput
        /\ ~HasKey(steps, "quality_check")

C4_Witness ==
    /\ child_result["generation"] = "nonzero"
    /\ Aborted
    /\ StatusOf(steps, "sizing") = "success"

(* C5: whatever way QualityCheck fails (non-zero exit, or exit 0 with a    *)
(* report the coordinator cannot load), the failure is recorded and the    *)
(* run is not aborted: with Detection and Generation successful the run    *)
(* goes on to cleanup and returns its results.                             *)
C5_QualityFailureNeverFatal ==
    /\ child_result["quality_check"] \in {"nonzero", "bad_output"} =>
          StatusOf(steps, "quality_check") = "failed"
    /\ ( /\ child_result["textract"] = "ok"
         /\ child_result["generation"] = "ok"
         /\ child_result["quality_check"] # "none" ) =>
          /\ pc \in {"cleanup", "returned"}
          /\ raised = "none"
          /\ Completed => returned = steps

(* C6: the stage history grows by exactly one entry per stage the run has  *)
(* passed, in stage order, skipped stages included: a Completed run has    *)
(* the five entries textract, validation, sizing, generation,              *)
(* quality_check, each success, failed or skipped, and a stage is          *)
(* recorded as skipped exactly when it was configured as skipped.          *)
C6_OneResultPerStage ==
    /\ Len(steps) <= Len(StageOrder)
    /\ \A i \in 1..Len(steps) :
          /\ steps[i].name = StageOrder[i]
          /\ steps[i].status \in {"success", "failed", "skipped"}
    /\ pc \in Stages => Len(steps) = StageIndex(pc) - 1
    /\ pc \in {"cleanup", "returned"} => Len(steps) = Len(StageOrder)
    /\ Completed => returned = steps
    /\ HasKey(steps, "validation") =>
          (skip_validation <=> StatusOf(steps, "validation") = "skipped")
    /\ HasKey(steps, "sizing") =>
          (skip_sizing <=> StatusOf(steps, "sizing") = "skipped")
    /\ \A s \in Stages \ {"validation", "sizing"} :
          StatusOf(steps, s) # "skipped"

C6_Witness ==
    /\ Completed
    /\ skip_validation
    /\ ~skip_sizing
    /\ StatusOf(steps, "sizing") = "failed"
    /\ StatusOf(steps, "quality_check") = "failed"
    /\ Len(returned) = 5

C8_FatalFailureReturnsRecord ==
    \A s \in {"textract", "generation"} :
        child_result[s] = "nonzero" =>
            /\ raised = "none"
            /\ returned = steps
            /\ StatusOf(returned, s) = "failed"

(***************************************************************************)
(* Properties of field_sizing.py                                           *)
(***************************************************************************)
InputFields == fields_data.list

OutputOf(i) == SelectSeq(sz_result.validated_fields, LAMBDA g : g.obj = i)

(* The analysis of input field i raises on the page raster it belongs to.  *)
AnalysisRaises(i) ==
    /\ InputFields[i].page <= images.count
    /\ optimize_field_bbox(InputFields[i], images, pixels[i],
                           PageFields(InputFields, InputFields[i].page)).raised

(* C9: Sizing never removes a field: whatever the page numbers of the      *)
(* fields and the number of rasterized pages, the written output holds     *)
(* exactly one field for each input field.                                 *)
C9_SizingKeepsEveryField ==
    sz_result.written =>
        /\ Len(sz_result.validated_fields) = Len(InputFields)
        /\ \A i \in 1..Len(InputFields) : Len(OutputOf(i)) = 1

(* C10: a failure while analysing one field is caught at that field: the   *)
(* Sizing program still ends with exit status 0, the field is in the       *)
(* output with its original bounding box, and the other fields of the      *)
(* rasterized pages are in the output too.                                 *)
C10_FieldFailureContained ==
    (sz_pc = "done" /\ fields_data.exists /\ fields_data.key # "none") =>
        \A i \in 1..Len(InputFields) :
            AnalysisRaises(i) =>
                /\ exit_code = "0"
                /\ sz_result.written
                /\ Len(OutputOf(i)) = 1
                /\ OutputOf(i)[1].bounding_box = InputFields[i].bounding_box
                /\ \A j \in 1..Len(InputFields) :
                      InputFields[j].page <= images.count =>
                          Len(OutputOf(j)) = 1

(***************************************************************************)
(* Properties of batch_convert                                             *)
(***************************************************************************)
ParallelRun ==
    /\ UseParallel(parallel, template_learning)
    /\ b_pc \in {"parallel", "returned"}

RecordsOf(d) == {i \in 1..Len(results.files) : results.files[i].filename = d}

(* What a file's own pipeline run amounts to: a failed step of its own, an *)
(* empty form, or a conversion.                                            *)
OwnStatus(d) ==
    IF doc_fault[d] # "none" THEN "error"
    ELSE IF doc_result[d].fields_detected = 0 THEN "warning"
    ELSE "success"

Unrecorded == {d \in Files : doc_pc[d] \in InWorker \cup {"finished"}}

(* C12: with template learning the files are processed one at a time in    *)
(* input order whatever worker count was asked for: no file is ever        *)
(* queued in a pool, at most one file is started and not yet recorded, a   *)
(* file is started only when every earlier file has been recorded, and the *)
(* results are recorded in input order.                                    *)
C12_TemplateLearningIsSequential ==
    template_learning =>
        /\ b_pc # "parallel"
        /\ \A d \in Files : doc_pc[d] # "queued"
        /\ Cardinality(Unrecorded) <= 1
        /\ \A d \in Files :
              doc_pc[d] # "idle" =>
                  \A e \in Files : e < d => doc_pc[e] = "recorded"
        /\ \A i \in 1..Len(results.files) : results.files[i].filename = i

C12_Witness ==
    /\ template_learning
    /\ parallel > 1
    /\ Len(pdf_files) >= 2
    /\ doc_pc[1] = "recorded"
    /\ doc_pc[2] \in InWorker

CountOf(status) ==
    Cardinality({i \in 1..Len(results.files) : results.files[i].status = status})

(* C13: in every state of a batch run, in both branches, processed is the  *)
(* number of recorded results and the sum of successful, warnings and      *)
(* failed, each of which counts the recorded results of its status; when   *)
(* the batch has returned, processed is total_files.                       *)
C13_ReportCountsConsistent ==
    /\ results.processed = Len(results.files)
    /\ results.processed =
          results.successful + results.warnings + results.failed
    /\ results.successful = CountOf("success")
    /\ results.warnings = CountOf("warning")
    /\ results.failed = CountOf("error")
    /\ b_pc = "returned" => results.processed = results.total_files

C13_Witness ==
    /\ b_pc = "returned"
    /\ results.successful >= 1
    /\ results.warnings >= 1
    /\ results.failed >= 1
    /\ results.processed = 3

(***************************************************************************)
(* Properties of optimize_field_bbox                                       *)
(***************************************************************************)
Refined(i) == i \in DOMAIN rf_calls /\ rf_calls[i] # "none"

(* The box the field gets when no sibling is in the way (no shrinking).    *)
Alone(i) ==
    optimize_field_bbox(rf_fields[i], rf_image, rf_pixels[i],
                        <<rf_fields[i]>>).bbox

Shrunk(i) == Refined(i) /\ rf_last[i] # Alone(i)

(* C14: every refined bounding box lies on the page and is not empty:      *)
(* 0 <= left, top <= 1, width > 0, height > 0, and left + width and        *)
(* top + height are at most 1 plus a tolerance of one thousandth.          *)
C14_RefinedBoxOnPage ==
    \A i \in DOMAIN rf_fields :
        Refined(i) =>
            LET b == rf_last[i]
            IN /\ 0 <= b.left /\ b.left <= Unit
               /\ 0 <= b.top /\ b.top <= Unit
               /\ b.width > 0
               /\ b.height > 0
               /\ b.left + b.width <= Unit + Unit \div 1000
               /\ b.top + b.height <= Unit + Unit \div 1000

(* C15 as stated: every refined checkbox has normalized width equal to     *)
(* normalized height, on every page size.                                  *)
C15_CheckboxNormalizedSquare ==
    \A i \in DOMAIN rf_fields :
        (Refined(i) /\ rf_fields[i].field_type = "checkbox") =>
            rf_last[i].width = rf_last[i].height

(* C15, amended: every refined checkbox is square in pixels, that is its   *)
(* normalized width times the page width equals its normalized height      *)
(* times the page height, also after the overlap shrinking.                *)
C15_CheckboxPixelSquare ==
    \A i \in DOMAIN rf_fields :
        (Refined(i) /\ rf_fields[i].field_type = "checkbox") =>
            rf_last[i].width * rf_image.width =
                rf_last[i].height * rf_image.height

C15_Witness ==
    \E i \in DOMAIN rf_fields :
        /\ Refined(i)
        /\ rf_fields[i].field_type = "checkbox"
        /\ rf_image.width # rf_image.height
        /\ rf_last[i].width > 0
        /\ rf_last[i].width # rf_last[i].height
        /\ Shrunk(i)

(* C16: after refinement, overlap shrinking included, every textarea has   *)
(* normalized height of at least 0.10 and every signature normalized width *)
(* of at least 0.20 and height of at least 0.05.                           *)
C16_TypeMinimumsHold ==
    \A i \in DOMAIN rf_fields :
        Refined(i) =>
            /\ rf_fields[i].field_type = "textarea" =>
                   rf_last[i].height >= Unit \div 10
            /\ rf_fields[i].field_type = "signature" =>
                   /\ rf_last[i].width >= Unit \div 5
                   /\ rf_last[i].height >= Unit \div 20

(* Area of the intersection of two boxes, in squares of 1/Unit.            *)
OverlapArea(b1, b2) ==
    LET w == Min2(b1.left + b1.width, b2.left + b2.width) - Max2(b1.left, b2.left)
        h == Min2(b1.top + b1.height, b2.top + b2.height) - Max2(b1.top, b2.top)
    IN Max2(0, w) * Max2(0, h)

(* C17: when two candidates of the page overlap by an area A0 > 0, their   *)
(* refined boxes overlap by an area A1 with A1 <= 0.81 * A0.               *)
C17_OverlapShrinks ==
    \A i, j \in DOMAIN rf_fields :
        (i # j /\ Refined(i) /\ Refined(j)) =>
            LET A0 == OverlapArea(rf_fields[i].bounding_box,
                                  rf_fields[j].bounding_box)
                A1 == OverlapArea(rf_last[i], rf_last[j])
            IN A0 > 0 => 100 * A1 <= 81 * A0

(* C18: refinement leaves the position alone: the refined left and top are *)
(* the candidate's left and top, on the underline path, on the whitespace  *)
(* path and when the box was shrunk for an overlap.                        *)
C18_OriginKept ==
    \A i \in DOMAIN rf_fields :
        Refined(i) =>
            /\ rf_last[i].left = rf_fields[i].bounding_box.left
            /\ rf_last[i].top = rf_fields[i].bounding_box.top

C18_Witness ==
    \E i, j \in DOMAIN rf_fields :
        /\ Refined(i) /\ Refined(j)
        /\ rf_pixels[i].underline # 0
        /\ rf_pixels[j].underline = 0
        /\ Shrunk(i) /\ Shrunk(j)
        /\ ToPx(rf_fields[i].bounding_box.left, rf_image.width) * Unit
              # rf_fields[i].bounding_box.left * rf_image.width

C20_SizingMethodNamesPath ==
    sz_result.written =>
        /\ \A k \in 1..Len(sz_result.validated_fields) :
              LET f == sz_result.validated_fields[k]
              IN /\ "sizing_method" \in DOMAIN f
                 /\ f.sizing_method \in {"underline", "whitespace", "typeDefault"}
                 /\ f.sizing_method = "underline" <=> pixels[f.obj].underline # 0
        /\ {"avg_width", "avg_height"} \subseteq DOMAIN sz_result.sizing_stats

(***************************************************************************)
(* Properties of the Sizing program's input checks                         *)
(***************************************************************************)
BoxComponents == {"left", "top", "width", "height"}

(* The fields file exists and loads, but has no fields list or has a field *)
(* whose bounding_box lacks a component.                                   *)
Malformed ==
    /\ fields_data.exists
    /\ \/ fields_data.key = "none"
       \/ \E i \in 1..Len(InputFields) :
             ~(BoxComponents \subseteq DOMAIN InputFields[i].bounding_box)

(* C21: a malformed fields artifact is rejected before any stage work: as  *)
(* soon as the Sizing program has left its input checks it has ended with  *)
(* an error, no page was rasterized for the field loop and no field was    *)
(* analysed.                                                               *)
C21_MalformedRejectedFirst ==
    (Malformed /\ sz_pc # "load") =>
        /\ sz_pc = "done"
        /\ exit_code = "1"
        /\ page_num = 0
        /\ optimized_fields = <<>>

(***************************************************************************)
(* Properties of the coordinator's files                                   *)
(***************************************************************************)
Consumers == {s \in Stages : stage_input[s].file \in IntermediateFiles}

(* The stage started after s: Sizing unless skipped, else Generation.      *)
StartedAfter(s) ==
    {t \in Later(s) : Started(t) /\ \A u \in Later(s) :
                                        Started(u) => StageIndex(t) <= StageIndex(u)}

(* C22: no stage changes the fields file it was given: until the cleanup   *)
(* the file a started stage reads has the content it had when the stage    *)
(* started, whether the stage succeeded or failed, and after a failed      *)
(* Validation or Sizing the next stage is given that same file with that   *)
(* same content.                                                           *)
C22_ConsumedArtifactUnchanged ==
    /\ pc # "returned" =>
          \A s \in Consumers : files[stage_input[s].file] = stage_input[s].content
    /\ \A s \in {"validation", "sizing"} :
          child_result[s] = "nonzero" =>
              \A t \in StartedAfter(s) : stage_input[t] = stage_input[s]

C22_Witness ==
    /\ child_result["validation"] = "nonzero"
    /\ files[validated_file].kind = "unreadable"
    /\ child_result["sizing"] = "nonzero"
    /\ files[sized_file].kind = "unreadable"
    /\ Started("generation")
    /\ stage_input["generation"].file = fields_file
    /\ stage_input["generation"].content.count > 0

(***************************************************************************)
(* Properties of process_single_pdf                                        *)
(***************************************************************************)
(* Lines 41-134: the steps process_single_pdf runs, in order.              *)
BatchStepOrder == <<"analyze", "detect", "validate", "generate">>

StepIndex(p) == CHOOSE k \in 1..Len(BatchStepOrder) : BatchStepOrder[k] = p

(* The steps that were run for file d so far.                              *)
StepsRun(d) ==
    IF doc_pc[d] \in InWorker
    THEN {BatchStepOrder[k] : k \in 1..(StepIndex(doc_pc[d]) - 1)}
    ELSE IF doc_pc[d] \in {"finished", "recorded"}
         THEN IF doc_fault[d] = "none"
              THEN {BatchStepOrder[k] : k \in 1..Len(BatchStepOrder)}
              ELSE {BatchStepOrder[k] : k \in 1..StepIndex(doc_fault[d])}
         ELSE {}

(* C23: each file of a batch is processed by the single-run rules: a       *)
(* failed Validation does not fail the file, which is still generated, and *)
(* a file that was generated went through Sizing.                          *)
C23_BatchFollowsCoordinator ==
    \A d \in Files :
        /\ doc_fault[d] = "validate" =>
              /\ doc_result[d].status # "error"
              /\ "generate" \in StepsRun(d)
        /\ doc_result[d].output_file => "sizing" \in StepsRun(d)

(***************************************************************************)
(* Properties of the overlap step and of the evidence step                 *)
(***************************************************************************)
(* The refined box before the overlap step: the call with no sibling.      *)
Unshrunk(i) ==
    optimize_field_bbox(rf_fields[i], rf_image, rf_pixels[i], <<>>).bbox

(* The other candidates of the page that the unshrunk box touches.         *)
Intersecting(i) ==
    {j \in DOMAIN rf_fields :
        /\ j # i
        /\ rf_fields[j].page = rf_fields[i].page
        /\ boxes_overlap(Unshrunk(i), rf_fields[j].bounding_box)}

EvidenceOnly(i) ==
    /\ Refined(i)
    /\ rf_fields[i].field_type = "text"
    /\ Intersecting(i) = {}

OriginalHeightPx(i) ==
    (rf_fields[i].bounding_box.height * rf_image.height) \div Unit

(* C25 as stated, in exact arithmetic: with an underline the refined size  *)
(* is the line's width and max(line height, 1.5% of the page height); with *)
(* none the width is min(horizontalExtent, 0.5 * pageWidth) and the height *)
(* is max(1.2 * glyphHeight, 0.015 * pageHeight, min(originalHeightPx,     *)
(* 0.04 * pageHeight)), both divided by the page dimension.  Both sides    *)
(* are scaled by 1000 so that the fractions are whole numbers.             *)
C25_EvidencePriorityExact ==
    \A i \in DOMAIN rf_fields :
        EvidenceOnly(i) =>
            LET ev == rf_pixels[i]
                W == rf_image.width
                H == rf_image.height
            IN IF ev.underline # 0
               THEN /\ rf_last[i].width * W = Unit * ev.underline
                    /\ rf_last[i].height * H * 1000
                          = Unit * Max2(3000, 15 * H)
               ELSE /\ rf_last[i].width * W * 10
                          = Unit * Min2(10 * ev.horizontal_extent, 5 * W)
                    /\ rf_last[i].height * H * 1000
                          = Unit * Max2(Max2(1200 * ev.text_height, 15 * H),
                                        Min2(1000 * OriginalHeightPx(i),
                                             40 * H))

(* C25 amended: the same priority and the same terms, each truncated to    *)
(* whole pixels as int() does before the maximum or minimum is taken: with *)
(* an underline the size is the line's width and max(3, int(1.5% of the    *)
(* page height)), whatever the white run and glyph height are; with none   *)
(* the width is min(horizontalExtent, int(0.5 * pageWidth)) and the height *)
(* max(int(1.2 * glyphHeight), int(0.015 * pageHeight),                    *)
(* min(originalHeightPx, int(0.04 * pageHeight))) pixels.                  *)
C25_EvidencePriorityTruncated ==
    \A i \in DOMAIN rf_fields :
        EvidenceOnly(i) =>
            LET ev == rf_pixels[i]
                W == rf_image.width
                H == rf_image.height
            IN IF ev.underline # 0
               THEN /\ rf_last[i].width * W = Unit * ev.underline
                    /\ rf_last[i].height * H
                          = Unit * Max2(3, (15 * H) \div 1000)
               ELSE /\ rf_last[i].width * W
                          = Unit * Min2(ev.horizontal_extent, (5 * W) \div 10)
                    /\ rf_last[i].height * H
                          = Unit * Max2(Max2((12 * ev.text_height) \div 10,
                                             (15 * H) \div 1000),
                                        Min2(OriginalHeightPx(i),
                                             (40 * H) \div 1000))

(* A text field without an underline, with a white run of 20 px and the    *)
(* default glyph height of 12 px, has been refined on the 100 px page: its *)
(* height is 14 px, where 1.2 * 12 is 14.4.                                *)
C25_Witness ==
    \E i \in DOMAIN rf_fields :
        /\ EvidenceOnly(i)
        /\ rf_pixels[i].underline = 0
        /\ rf_pixels[i].text_height = 12
        /\ rf_last[i].width > 0
        /\ rf_last[i].height * rf_image.height = Unit * 14

(***************************************************************************)
(* C26                                                                     *)
(***************************************************************************)
RECURSIVE RunEndingAt(_, _)
RunEndingAt(row, x) ==
    IF x = 0 THEN 0
    ELSE IF row[x] THEN 1 + RunEndingAt(row, x - 1) ELSE 0

LongestRun(row) ==
    CHOOSE n \in 0..Len(row) :
        /\ \E x \in 0..Len(row) : RunEndingAt(row, x) = n
        /\ \A x \in 0..Len(row) : RunEndingAt(row, x) <= n

(* C26: underline detection returns, for the selected row, the length of   *)
(* the longest contiguous run of edge pixels as the width, with height 3,  *)
(* when that run is longer than 10 px, and none otherwise; edge pixels of  *)
(* the row outside that run count neither towards the width nor towards    *)
(* the 10 px minimum.                                                      *)
C26_WidthIsLongestRun ==
    ul_pc = "returned" =>
        IF EdgesUpTo(ul_edges, Len(ul_edges)) = 0
        THEN ul_result = NoUnderline
        ELSE LET run == LongestRun(ul_edges[MedianRow(ul_edges) + 1])
             IN IF run > 10
                THEN ul_result = [width |-> run, height |-> 3,
                                  type |-> "underline"]
                ELSE ul_result = NoUnderline

(***************************************************************************)
(* C27                                                                     *)
(***************************************************************************)
(* C27: the refinement of a field depends neither on the order in which    *)
(* the fields of the page are refined nor on the refined result of any     *)
(* sibling: whatever calls were made before, the box returned for a field  *)
(* is the one computed from the field and the siblings' input boxes.       *)
C27_OrderIndependent ==
    \A i \in DOMAIN rf_fields :
        Refined(i) =>
            rf_last[i] = optimize_field_bbox(rf_fields[i], rf_image,
                                             rf_pixels[i], rf_fields).bbox

(* Two fields are refined; the first was shrunk because it meets the input *)
(* box of the second, and would not meet the second's refined box.         *)
C27_Witness ==
    \E i, j \in DOMAIN rf_fields :
        /\ i # j
        /\ Refined(i)
        /\ Refined(j)
        /\ boxes_overlap(Unshrunk(i), rf_fields[j].bounding_box)
        /\ ~boxes_overlap(Unshrunk(i), rf_last[j])
        /\ rf_last[i] # Unshrunk(i)

(***************************************************************************)
(* C28                                                                     *)
(***************************************************************************)
InReport(d) == d \in Files /\ doc_pc[d] = "recorded"

Successes == {d \in Docs : InReport(d) /\ doc_result[d].status = "success"}

(* The first file of the batch whose counted status is success, 0 if none. *)
FirstSuccess ==
    IF Successes = {} THEN 0
    ELSE CHOOSE d \in Successes : \A e \in Successes : d <= e

HasStarted(d) == d \in Files /\ doc_pc[d] \notin {"idle", "queued"}

WrittenBy(s) ==
    CASE s = "textract" -> fields_file
      [] s = "validation" -> validated_file
      [] s = "sizing" -> sized_file
      [] s = "quality_check" -> validation_report

(* The intermediate artifacts whose writer ran to its end in this run.     *)
WrittenSoFar ==
    { WrittenBy(s) : s \in {t \in Stages \ {"generation"} :
                               child_result[t] \in {"ok", "bad_output"}} }

(* C29: an intermediate artifact written during the run is missing only    *)
(* when the run reached Completed with keep_intermediates false; in every  *)
(* other state, those after an abort on a Detection or Generation failure  *)
(* included, the intermediate artifacts written so far are still there.    *)
C29_CleanupOnlyOnCompletion ==
    (\E f \in WrittenSoFar : files[f] = NoFile)
        => (Completed /\ ~keep_intermediates)

(* The run was asked to delete its intermediates and aborted on a          *)
(* Generation failure: the detected and the sized fields are still there.  *)
C29_Witness ==
    /\ Aborted
    /\ ~keep_intermediates
    /\ child_result["generation"] = "nonzero"
    /\ {fields_file, sized_file} \subseteq WrittenSoFar
    /\ files[fields_file].kind = "json"
    /\ files[sized_file].kind = "json"

(***************************************************************************)
(* C30                                                                     *)
(***************************************************************************)
(* The names input_dir.glob("*.pdf") can return, in sorted order (line     *)
(* 176), each as its components between dots: "-a.pdf", ".pdf",           *)
(* ".pdf.pdf", "a.pdf", "a.v2.pdf".  Path.glob also returns names that     *)
(* begin with a dot.  The directory of a batch of n files holds the first  *)
(* n of them.                                                              *)
DirListing ==
    << <<"-a", "pdf">>,
       <<"", "pdf">>,
       <<"", "pdf", "pdf">>,
       <<"a", "pdf">>,
       <<"a", "v2", "pdf">> >>

FileName(d) == DirListing[pdf_files[d]]

(* Path.stem: the name up to its last dot, or the whole name when that dot *)
(* is its first or its last character or there is none.                    *)
Stem(name) ==
    IF \/ Len(name) < 2
       \/ name[Len(name)] = ""
       \/ (Len(name) = 2 /\ name[1] = "")
    THEN name
    ELSE SubSeq(name, 1, Len(name) - 1)

(* Lines 38, 43, 56, 121, 133: the paths process_single_pdf writes below   *)
(* output_dir for file d.                                                  *)
WritePaths(d) ==
    LET stem == Stem(FileName(d))
    IN { [stem |-> stem, path |-> ".work_<stem>"],
         [stem |-> stem, path |-> ".work_<stem>/analysis.json"],
         [stem |-> stem, path |-> ".work_<stem>/fields.json"],
         [stem |-> stem, path |-> ".work_<stem>/validated.json"],
         [stem |-> stem, path |-> "<stem>_fillable.pdf"] }

(* C30: in independent mode no two concurrently processed documents write  *)
(* to the same path: the working directory and the output file come from   *)
(* the document's own stem and the stems of a batch are pairwise distinct. *)
C30_DisjointWritePaths ==
    \A d, e \in Docs :
        (b_pc = "parallel" /\ d # e /\ {d, e} \subseteq InProgress)
            => WritePaths(d) \cap WritePaths(e) = {}

====
